---- MODULE Spec2Model ----
(***************************************************************************)
(* Model of the Newuoa builder object of src/src/lib.rs (the setters, the *)
(* pre-run check, the workspace sizing and the two perform entry points)  *)
(* together with the iteration controller of the optimisation engine it   *)
(* calls through newuoa_closure / newuoa_closure_const.  The engine is    *)
(* linked from newuoa-cpp and has no source here: its controller is       *)
(* modelled from section 4.4 of the specification.                        *)
(*                                                                         *)
(* f64 radii are represented by their rank in an ordered set of reals:    *)
(* rank 0 is the representative of the non-positive values, ranks 1, 2,   *)
(* ... are increasing positive values, and NaN is a value of its own that *)
(* compares false with everything.  The wrapper only compares radii, so   *)
(* the order is all that matters to it.                                   *)
(***************************************************************************)
EXTENDS Integers, FiniteSets, Sequences, TLC

\* ---------------------------------------------------------------- bounds
MaxN == 3
MaxNpt == 7
MaxRadius == 3
MaxFun == 6
MaxCalls == MaxFun + 1
MaxDelta == MaxRadius + 1

\* ------------------------------------------------------ program constants
VARIABLES_COUNT == 2
NUMBER_OF_INTERPOLATION_CONDITIONS == VARIABLES_COUNT + 2
DEFAULT_INITIAL_TRUST_REGION_RADIUS == 1
DEFAULT_FINAL_TRUST_REGION_RADIUS == 2
DEFAULT_MAX_FUNCTION_CALLS_COUNT == 1000
NaN == -1

\* ------------------------------------------------------------ input sets
NValues == 1..MaxN
NptValues == 3..MaxNpt
RadiusValues == 0..MaxRadius
RadiusInputs == RadiusValues \cup {NaN}
MaxFunValues == 0..MaxFun
LenValues == (MaxN - 1)..(MaxN + 1)
PerformOps == {"perform", "perform_mut"}
RadiusSetterOps == {"initial_trust_region_radius", "final_trust_region_radius"}
SetterOps == {"variables_count", "number_of_interpolation_conditions",
              "max_function_calls_count"} \cup RadiusSetterOps
EngineStates == {"Initializing", "Stepping", "Evaluated", "GeometryFix",
                 "Terminated", "Aborted"}

VARIABLES
  variables_count,                      \* Newuoa.variables_count
  number_of_interpolation_conditions,   \* Newuoa.number_of_interpolation_conditions
  initial_trust_region_radius,          \* Newuoa.initial_trust_region_radius
  final_trust_region_radius,            \* Newuoa.final_trust_region_radius
  max_function_calls_count,             \* Newuoa.max_function_calls_count
  working_space_len,                    \* Newuoa.working_space.len()
  op,             \* the most recent API call on the object
  result,         \* "none", "ok", "panic" (an assertion failed) or "running"
  values_len,     \* values.len() of the most recent perform call
  values_written, \* the engine has written the caller's slice
  calls,          \* evaluator invocations made by the current engine run
  pc,             \* "idle" or the iteration controller's state
  rho,            \* TrustRegionState.rho
  delta,          \* TrustRegionState.delta
  budget          \* Budget: remaining function evaluations

fields == <<variables_count, number_of_interpolation_conditions,
            initial_trust_region_radius, final_trust_region_radius,
            max_function_calls_count>>
engine == <<pc, rho, delta, budget, calls>>
vars == <<variables_count, number_of_interpolation_conditions,
          initial_trust_region_radius, final_trust_region_radius,
          max_function_calls_count, working_space_len, op, result,
          values_len, values_written, calls, pc, rho, delta, budget>>

\* f64 `<=`: false as soon as one side is NaN
Le(a, b) == a # NaN /\ b # NaN /\ a <= b

\* f64 `>=`
Ge(a, b) == a # NaN /\ b # NaN /\ a >= b

\* Newuoa::working_space_size(number_of_interpolation_conditions, variables_count)
working_space_size(npt, n) ==
  (3 * n * (n + 3)) \div 2 + (npt + 13) * (npt + n)

\* the workspace size the engine requires for n variables and npt conditions
WorkspaceFormula(n, npt) ==
  (3 * n * (n + 3)) \div 2 + (npt + 13) * (npt + n)

\* Newuoa::new
Init ==
  /\ variables_count = VARIABLES_COUNT
  /\ number_of_interpolation_conditions = NUMBER_OF_INTERPOLATION_CONDITIONS
  /\ initial_trust_region_radius = DEFAULT_INITIAL_TRUST_REGION_RADIUS
  /\ final_trust_region_radius = DEFAULT_FINAL_TRUST_REGION_RADIUS
  /\ max_function_calls_count = DEFAULT_MAX_FUNCTION_CALLS_COUNT
  /\ working_space_len = working_space_size(VARIABLES_COUNT,
                                            NUMBER_OF_INTERPOLATION_CONDITIONS)
  /\ op = "new"
  /\ result = "none"
  /\ values_len = 0
  /\ values_written = FALSE
  /\ calls = 0
  /\ pc = "idle"
  /\ rho = 0
  /\ delta = 0
  /\ budget = 0

\* what a setter call leaves behind besides the field it sets: the call is
\* recorded, and the observations of the previous perform call are dropped
SetterCalled(name, ok) ==
  /\ pc = "idle"
  /\ op' = name
  /\ result' = IF ok THEN "ok" ELSE "panic"
  /\ values_len' = 0
  /\ values_written' = FALSE
  /\ UNCHANGED <<working_space_len, calls, pc, rho, delta, budget>>

\* Newuoa::variables_count(value)
set_variables_count(value) ==
  /\ SetterCalled("variables_count", value >= 2)
  /\ variables_count' = IF value >= 2 THEN value ELSE variables_count
  /\ UNCHANGED <<number_of_interpolation_conditions, initial_trust_region_radius,
                 final_trust_region_radius, max_function_calls_count>>

\* Newuoa::number_of_interpolation_conditions(value)
set_number_of_interpolation_conditions(value) ==
  /\ SetterCalled("number_of_interpolation_conditions", value >= 4)
  /\ number_of_interpolation_conditions' =
       IF value >= 4 THEN value ELSE number_of_interpolation_conditions
  /\ UNCHANGED <<variables_count, initial_trust_region_radius,
                 final_trust_region_radius, max_function_calls_count>>

set_initial_trust_region_radius_unchecked(value) ==
  /\ SetterCalled("initial_trust_region_radius", TRUE)
  /\ initial_trust_region_radius' = value
  /\ UNCHANGED <<variables_count, number_of_interpolation_conditions,
                 final_trust_region_radius, max_function_calls_count>>

\* Newuoa::initial_trust_region_radius(value)
set_initial_trust_region_radius(value) ==
  /\ SetterCalled("initial_trust_region_radius",
                  Le(value, final_trust_region_radius))
  /\ initial_trust_region_radius' =
       IF Le(value, final_trust_region_radius)
       THEN value ELSE initial_trust_region_radius
  /\ UNCHANGED <<variables_count, number_of_interpolation_conditions,
                 final_trust_region_radius, max_function_calls_count>>

\* Newuoa::final_trust_region_radius(value)
set_final_trust_region_radius(value) ==
  /\ SetterCalled("final_trust_region_radius",
                  Ge(value, initial_trust_region_radius))
  /\ final_trust_region_radius' =
       IF Ge(value, initial_trust_region_radius)
       THEN value ELSE final_trust_region_radius
  /\ UNCHANGED <<variables_count, number_of_interpolation_conditions,
                 initial_trust_region_radius, max_function_calls_count>>

\* Newuoa::max_function_calls_count(value)
set_max_function_calls_count(value) ==
  /\ SetterCalled("max_function_calls_count", TRUE)
  /\ max_function_calls_count' = value
  /\ UNCHANGED <<variables_count, number_of_interpolation_conditions,
                 initial_trust_region_radius, final_trust_region_radius>>

check_without_upper_bound(len) ==
  /\ len >= variables_count
  /\ number_of_interpolation_conditions >= variables_count + 2

check_without_length(len) ==
  /\ number_of_interpolation_conditions >= variables_count + 2
  /\ number_of_interpolation_conditions <=
       ((variables_count + 1) * (variables_count + 2)) \div 2

\* Newuoa::check(values): TRUE when no assertion fails
check(len) ==
  /\ len >= variables_count
  /\ number_of_interpolation_conditions >= variables_count + 2
  /\ number_of_interpolation_conditions <=
       ((variables_count + 1) * (variables_count + 2)) \div 2

resize_working_space_swapped ==
  LET working_space_size_ == working_space_size(variables_count,
                                                number_of_interpolation_conditions)
  IN  IF working_space_len # working_space_size_
      THEN working_space_size_ ELSE working_space_len

\* Newuoa::resize_working_space: the length of working_space after the call
resize_working_space ==
  LET working_space_size_ == working_space_size(number_of_interpolation_conditions,
                                                variables_count)
  IN  IF working_space_len # working_space_size_
      THEN working_space_size_ ELSE working_space_len

\* entry of the engine (newuoa_closure / newuoa_closure_const): the
\* controller starts in Initializing with rho = delta = rhobeg and the whole
\* budget
EngineStart(rhobeg, maxfun) ==
  /\ pc' = "Initializing"
  /\ rho' = rhobeg
  /\ delta' = rhobeg
  /\ budget' = maxfun
  /\ calls' = 0

\* the body shared by Newuoa::perform and Newuoa::perform_mut
PerformCall(name, len) ==
  /\ pc = "idle"
  /\ op' = name
  /\ values_len' = len
  /\ values_written' = FALSE
  /\ IF check(len)
     THEN /\ working_space_len' = resize_working_space
          /\ EngineStart(initial_trust_region_radius, max_function_calls_count)
          /\ result' = "running"
     ELSE /\ result' = "panic"
          /\ calls' = 0
          /\ UNCHANGED <<working_space_len, pc, rho, delta, budget>>
  /\ UNCHANGED fields

\* Newuoa::perform(values, function)
perform == \E len \in LenValues : PerformCall("perform", len)

\* Newuoa::perform_mut(values, function)
perform_mut == \E len \in LenValues : PerformCall("perform_mut", len)

wrapper == <<variables_count, number_of_interpolation_conditions,
             initial_trust_region_radius, final_trust_region_radius,
             max_function_calls_count, working_space_len, op, result,
             values_len, values_written>>

EvaluateUnbudgeted ==
  /\ calls < MaxCalls
  /\ calls' = calls + 1
  /\ budget' = budget - 1

\* one call of the evaluator (Closure::new::wrap / ClosureMut::new::wrap),
\* which takes one unit of the budget
Evaluate ==
  /\ calls < MaxCalls
  /\ budget > 0
  /\ calls' = calls + 1
  /\ budget' = budget - 1

\* Initializing: the first npt points are evaluated one after the other; the
\* first full model build follows the last of them
InitEvaluate ==
  /\ pc = "Initializing"
  /\ Evaluate
  /\ pc' = IF calls' >= number_of_interpolation_conditions
           THEN "Stepping" ELSE "Initializing"
  /\ UNCHANGED <<rho, delta>>
  /\ UNCHANGED wrapper

\* Terminated because the evaluation budget is exhausted
BudgetExhausted ==
  /\ pc \in {"Initializing", "Stepping", "GeometryFix"}
  /\ budget <= 0
  /\ pc' = "Terminated"
  /\ UNCHANGED <<rho, delta, budget, calls>>
  /\ UNCHANGED wrapper

\* Stepping: the solver's step is long enough, the objective is evaluated at
\* the trial point
TrialStep ==
  /\ pc = "Stepping"
  /\ Evaluate
  /\ pc' = "Evaluated"
  /\ UNCHANGED <<rho, delta>>
  /\ UNCHANGED wrapper

RadiusReductionCheckRaising ==
  /\ pc = "Stepping"
  /\ budget > 0
  /\ \E well_poised \in BOOLEAN :
       IF delta = rho /\ well_poised
       THEN /\ rho' = final_trust_region_radius
            /\ delta' = rho'
            /\ pc' = IF rho <= final_trust_region_radius
                     THEN "Terminated" ELSE "Stepping"
       ELSE /\ pc' = "GeometryFix"
            /\ UNCHANGED <<rho, delta>>
  /\ UNCHANGED <<budget, calls>>
  /\ UNCHANGED wrapper

\* Stepping: the step norm is below a fraction of rho, so the radius-reduction
\* check runs: with delta = rho and a well-poised set the run terminates once
\* rho <= rhoend and otherwise rho and delta shrink toward rhoend; in the
\* other cases GeometryFix is triggered
RadiusReductionCheck ==
  /\ pc = "Stepping"
  /\ budget > 0
  /\ \E well_poised \in BOOLEAN :
       IF delta = rho /\ well_poised
       THEN IF rho <= final_trust_region_radius
            THEN /\ pc' = "Terminated"
                 /\ UNCHANGED <<rho, delta>>
            ELSE /\ \E r \in final_trust_region_radius..(rho - 1) : rho' = r
                 /\ delta' = rho'
                 /\ pc' = "Stepping"
       ELSE /\ pc' = "GeometryFix"
            /\ UNCHANGED <<rho, delta>>
  /\ UNCHANGED <<budget, calls>>
  /\ UNCHANGED wrapper

\* the model update after a point is replaced: it succeeds, possibly through
\* a full rebuild, or the rebuild fails and the run is aborted
ModelUpdate(next) ==
  \E rebuilt \in BOOLEAN : pc' = IF rebuilt THEN next ELSE "Aborted"

\* Accept (r >= 0.1): delta grows when r is large and the step nearly filled
\* the trust region, else it is unchanged; the point goes to the model
Accept ==
  /\ pc = "Evaluated"
  /\ \E grow \in BOOLEAN :
       delta' = IF grow /\ delta < MaxDelta THEN delta + 1 ELSE delta
  /\ ModelUpdate("Stepping")
  /\ UNCHANGED <<rho, budget, calls>>
  /\ UNCHANGED wrapper

\* Reject (r < 0.1): delta shrinks, never below rho; no point-set mutation;
\* a poorly distributed point set sends the controller to GeometryFix
Reject ==
  /\ pc = "Evaluated"
  /\ delta' = IF delta > rho THEN delta - 1 ELSE delta
  /\ \E poorly_distributed \in BOOLEAN :
       pc' = IF poorly_distributed THEN "GeometryFix" ELSE "Stepping"
  /\ UNCHANGED <<rho, budget, calls>>
  /\ UNCHANGED wrapper

\* GeometryFix: the geometry-improving point is evaluated and the model
\* updated; delta and rho do not change
GeometryFix ==
  /\ pc = "GeometryFix"
  /\ Evaluate
  /\ ModelUpdate("Stepping")
  /\ UNCHANGED <<rho, delta>>
  /\ UNCHANGED wrapper

\* the engine call returns into perform / perform_mut, the best point is in
\* the caller's slice and the call's frame is gone
EngineReturn ==
  /\ pc \in {"Terminated", "Aborted"}
  /\ pc' = "idle"
  /\ result' = "ok"
  /\ values_written' = TRUE
  /\ rho' = 0
  /\ delta' = 0
  /\ budget' = 0
  /\ calls' = 0
  /\ UNCHANGED <<working_space_len, op, values_len>>
  /\ UNCHANGED fields

Next ==
  \/ \E value \in NValues : set_variables_count(value)
  \/ \E value \in NptValues : set_number_of_interpolation_conditions(value)
  \/ \E value \in RadiusInputs : set_initial_trust_region_radius(value)
  \/ \E value \in RadiusInputs : set_final_trust_region_radius(value)
  \/ \E value \in MaxFunValues : set_max_function_calls_count(value)
  \/ perform
  \/ perform_mut
  \/ InitEvaluate
  \/ BudgetExhausted
  \/ TrialStep
  \/ RadiusReductionCheck
  \/ Accept
  \/ Reject
  \/ GeometryFix
  \/ EngineReturn

Spec == Init /\ [][Next]_vars

TypeOK ==
  /\ variables_count \in 2..MaxN
  /\ number_of_interpolation_conditions \in 4..MaxNpt
  /\ initial_trust_region_radius \in RadiusValues
  /\ final_trust_region_radius \in RadiusValues
  /\ max_function_calls_count \in MaxFunValues \cup {DEFAULT_MAX_FUNCTION_CALLS_COUNT}
  /\ working_space_len \in Nat
  /\ op \in {"new"} \cup SetterOps \cup PerformOps
  /\ result \in {"none", "ok", "panic", "running"}
  /\ values_len \in {0} \cup LenValues
  /\ values_written \in BOOLEAN
  /\ calls \in 0..MaxCalls
  /\ pc \in {"idle"} \cup EngineStates
  /\ rho \in RadiusValues
  /\ delta \in 0..MaxDelta
  /\ budget \in 0..DEFAULT_MAX_FUNCTION_CALLS_COUNT

\* the engine entered directly through newuoa_closure / newuoa_closure_const
\* with any arguments in the bounded sets that satisfy the range of npt: the
\* radii come in either order, the budget may be below npt
InitEngine ==
  /\ variables_count \in 2..MaxN
  /\ number_of_interpolation_conditions \in 4..MaxNpt
  /\ initial_trust_region_radius \in RadiusValues
  /\ final_trust_region_radius \in RadiusValues
  /\ max_function_calls_count \in MaxFunValues
  /\ op \in PerformOps
  /\ values_len = variables_count
  /\ check(values_len)
  /\ working_space_len = working_space_size(number_of_interpolation_conditions,
                                            variables_count)
  /\ result = "running"
  /\ values_written = FALSE
  /\ pc = "Initializing"
  /\ rho = initial_trust_region_radius
  /\ delta = initial_trust_region_radius
  /\ budget = max_function_calls_count
  /\ calls = 0

NextEngine ==
  \/ InitEvaluate
  \/ BudgetExhausted
  \/ TrialStep
  \/ RadiusReductionCheck
  \/ Accept
  \/ Reject
  \/ GeometryFix

SpecEngine == InitEngine /\ [][NextEngine]_vars

\* ------------------------------------------------------------------ claims

\* n + 2 <= npt <= (n + 1)(n + 2)/2 for the current fields
NptInRange ==
  /\ number_of_interpolation_conditions >= variables_count + 2
  /\ 2 * number_of_interpolation_conditions <=
       (variables_count + 1) * (variables_count + 2)

EngineInvoked == pc # "idle"

\* C1: a perform or perform_mut call made with npt < n + 2 or
\* npt > (n + 1)(n + 2)/2 ends in a panic, the engine is not invoked and the
\* evaluator has been called zero times.
C1_NptOutOfRangeRejected ==
  (op \in PerformOps /\ ~NptInRange) =>
    (result = "panic" /\ ~EngineInvoked /\ calls = 0)

C1_Witness ==
  /\ op \in PerformOps
  /\ result = "panic"
  /\ values_len >= variables_count
  /\ 2 * number_of_interpolation_conditions >
       (variables_count + 1) * (variables_count + 2)

\* C2 (as claimed): the engine never runs with rhoend > rhobeg.
C2_NoRunWithRhoendAboveRhobeg ==
  EngineInvoked => ~(final_trust_region_radius > initial_trust_region_radius)

\* C3 (as claimed): the engine never runs with maxfun <= npt.
C3_NoRunWithMaxfunNotAboveNpt ==
  EngineInvoked => max_function_calls_count > number_of_interpolation_conditions

\* C4: a perform or perform_mut call with a slice shorter than n ends in a
\* panic with the engine not invoked, zero evaluator calls and the slice not
\* written; a slice of length n or more does not panic when npt is in range.
C4_ShortSliceRejected ==
  /\ (op \in PerformOps /\ values_len < variables_count) =>
       (result = "panic" /\ ~EngineInvoked /\ calls = 0 /\ ~values_written)
  /\ (op \in PerformOps /\ values_len >= variables_count /\ NptInRange) =>
       result # "panic"

C4_Witness ==
  /\ op \in PerformOps
  /\ result = "panic"
  /\ values_len < variables_count
  /\ NptInRange

C6_WorkspaceSizedAtInvocation ==
  EngineInvoked =>
    working_space_len = WorkspaceFormula(variables_count,
                                         number_of_interpolation_conditions)

C6_Witness ==
  /\ pc = "Initializing"
  /\ variables_count # VARIABLES_COUNT
  /\ number_of_interpolation_conditions # NUMBER_OF_INTERPOLATION_CONDITIONS

\* C7 (as claimed): the engine never runs with rhobeg <= 0 or rhoend <= 0.
C7_NoRunWithNonPositiveRadius ==
  EngineInvoked =>
    (initial_trust_region_radius > 0 /\ final_trust_region_radius > 0)

\* C8: no transition of the iteration controller raises rho; rho changes only
\* in Stepping, never to a value below rhoend, and the transitions out of
\* Evaluated (Accept, Reject) and out of GeometryFix leave it unchanged.
C8_RhoNeverIncreases ==
  [][/\ rho' <= rho
     /\ (rho' # rho) => (pc = "Stepping" /\ rho' >= final_trust_region_radius)
     /\ (pc \in {"Evaluated", "GeometryFix"}) => rho' = rho]_vars

C8_Witness ==
  /\ pc = "Evaluated"
  /\ rho < initial_trust_region_radius
  /\ rho > final_trust_region_radius

\* C9 (as claimed): the object Newuoa::new() returns has a working_space of
\* length 3n(n + 3)/2 + (npt + 13)(npt + n) at n = 2, npt = 4.
C9_NewAllocatesFormulaSize ==
  op = "new" =>
    working_space_len = WorkspaceFormula(VARIABLES_COUNT,
                                         NUMBER_OF_INTERPOLATION_CONDITIONS)

\* C10: initial_trust_region_radius <= final_trust_region_radius before and
\* after every step, and a radius setter whose assertion fails leaves both
\* radii unchanged.
C10_InitialNeverAboveFinal ==
  [][/\ Le(initial_trust_region_radius, final_trust_region_radius)
     /\ Le(initial_trust_region_radius', final_trust_region_radius')
     /\ (op' \in RadiusSetterOps /\ result' = "panic") =>
          UNCHANGED <<initial_trust_region_radius, final_trust_region_radius>>]_vars

C10_Witness ==
  /\ op \in RadiusSetterOps
  /\ result = "panic"
  /\ initial_trust_region_radius # DEFAULT_INITIAL_TRUST_REGION_RADIUS
  /\ final_trust_region_radius # DEFAULT_FINAL_TRUST_REGION_RADIUS

====
